---- MODULE Spec2Model ----
(***************************************************************************)
(* A model of hoelli.py: the Sender (selector pool, per-connection blobs,  *)
(* residual buffers, throughput counter) driven by the two threads of      *)
(* Loops: sending_loop (main thread) and api_loop (controller thread).     *)
(*                                                                         *)
(* A str is the sequence of its code points and a bytes object the         *)
(* sequence of its byte values.                                            *)
(* Dictionaries are functions whose DOMAIN is the set of keys.  Python     *)
(* objects used as dictionary keys keep their identity: a socket is        *)
(* <<"socket", id>> and the selectors.SelectorKey registered for it is     *)
(* <<"SelectorKey", id>>; the two never compare equal.  selectors'         *)
(* get_map() is a Mapping from file object to SelectorKey, so              *)
(* get_map().values() yields SelectorKeys, while select() yields keys      *)
(* whose .fileobj is the socket.                                           *)
(*                                                                         *)
(* px_cnt is a Python float: a binary significand and an exponent, with    *)
(* every operation rounded as IEEE 754 doubles are.                        *)
(***************************************************************************)
EXTENDS Integers, Sequences, FiniteSets, TLC

\* ------------------------------------------------------------------ bounds

\* Sender(max_socks): the pool size given on the command line
max_socks == 2
\* sock.send calls the send loop makes in one behaviour
MaxSends == 2
\* control-channel calls api_loop makes in one behaviour
MaxCycles == 1
\* width and height of the images get_cmds is given (CmdsSpec)
MaxW == 2
MaxH == 1

\* ------------------------------------------------------------- small sets

Endpoints == {"wall1", "wall2"}
Urls == {"img1", "img2", "img3"}
DXs == {0, 1}
DYs == {0}
SockIds == 1..(2 * max_socks)

\* attribute px_per_str does not exist until set_cmd_list has run
PxUnset == -1

\* ------------------------------------------------------------ byte strings

\* the ASCII digits (code points 48 to 57) and letters (65 to 90, 97 to 122)
Digits == <<"0", "1", "2", "3", "4", "5", "6", "7", "8", "9">>
Upper == <<"A", "B", "C", "D", "E", "F", "G", "H", "I", "J", "K", "L", "M",
           "N", "O", "P", "Q", "R", "S", "T", "U", "V", "W", "X", "Y", "Z">>
Lower == <<"a", "b", "c", "d", "e", "f", "g", "h", "i", "j", "k", "l", "m",
           "n", "o", "p", "q", "r", "s", "t", "u", "v", "w", "x", "y", "z">>

\* the position of c in the sequence q
IndexIn(q, c) == CHOOSE i \in 1..Len(q) : q[i] = c

\* the code point of a space, an ASCII digit or an ASCII letter
Ord == [c \in {" "} \cup {Digits[i] : i \in 1..10} \cup {Upper[i] : i \in 1..26}
                  \cup {Lower[i] : i \in 1..26} |->
           IF c = " " THEN 32
           ELSE IF \E i \in 1..10 : Digits[i] = c THEN 47 + IndexIn(Digits, c)
           ELSE IF \E i \in 1..26 : Upper[i] = c THEN 64 + IndexIn(Upper, c)
           ELSE 96 + IndexIn(Lower, c)]

\* the str (or, all being ASCII, the bytes) written with the characters of s
Str(s) == [i \in 1..Len(s) |-> Ord[s[i]]]

TRANSPARENT == Str(<<"0", "0", "0", "0", "0", "0">>)

\* 0-9, A-F, a-f
HexDigits == (48..57) \cup (65..70) \cup (97..102)

\* the code points of the characters of category Nd whose value is 0 (Unicode 14.0):
\* each is followed by the digits 1 to 9 of its script
DigitZeros ==
    {48, 1632, 1776, 1984, 2406, 2534, 2662, 2790, 2918, 3046, 3174, 3302, 3430, 3558,
     3664, 3792, 3872, 4160, 4240, 6112, 6160, 6470, 6608, 6784, 6800, 6992, 7088, 7232,
     7248, 42528, 43216, 43264, 43472, 43504, 43600, 44016, 65296, 66720, 68912, 69734,
     69872, 69942, 70096, 70384, 70736, 70864, 71248, 71360, 71472, 71904, 72016, 72784,
     73040, 73120, 92768, 92864, 93008, 120782, 120792, 120802, 120812, 120822, 123200,
     123632, 125264, 130032}

\* int() reads every Unicode decimal digit as the ASCII digit of its value
AsciiDigit(c) ==
    IF c < 128 \/ ~\E z \in DigitZeros : c - z \in 0..9 THEN c
    ELSE 48 + c - (CHOOSE z \in DigitZeros : c - z \in 0..9)

RECURSIVE DecNat(_)
DecNat(n) == IF n < 10 THEN <<48 + n>>
             ELSE DecNat(n \div 10) \o <<48 + (n % 10)>>

\* '{}'.format(n) of an int
ToDec(n) == IF n < 0 THEN <<45>> \o DecNat(0 - n) ELSE DecNat(n)

\* data[k:]
Drop(data, k) == SubSeq(data, k + 1, Len(data))

\* data[:k]
Take(data, k) == SubSeq(data, 1, k)

RECURSIVE Join(_)
\* b''.join(cmds)
Join(cmds) == IF cmds = <<>> THEN <<>> ELSE Head(cmds) \o Join(Tail(cmds))

\* every order random.shuffle can leave the list in
Perms(cmds) ==
    LET n == Len(cmds)
        Bij == {f \in [1..n -> 1..n] : \A i, j \in 1..n : f[i] = f[j] => i = j}
    IN  {[i \in 1..n |-> cmds[f[i]]] : f \in Bij}

\* ------------------------------------------------------------------ images

\* load_img(url): the rows of the CSV behind each url, spaces removed
\* (img1: two colours; img2: a transparent cell and an RGBA colour; img3: a colour
\* that is no hexadecimal number)
load_img(u) ==
    IF u = "img1"
    THEN << << Str(<<"f", "f", "0", "0", "0", "0">>), Str(<<"0", "0", "f", "f", "0", "0">>) >> >>
    ELSE IF u = "img2"
    THEN << << Str(<<"0", "0", "0", "0", "0", "0">>), Str(<<"0", "0", "0", "0", "f", "f", "8", "0">>) >> >>
    ELSE << << Str(<<"f", "f", "0", "0", "0", "0">>), Str(<<"g", "g", "0", "0", "0", "0">>) >> >>

\* the characters int() skips at both ends: \t, \n, \v, \f, \r, the space, NEL, NBSP,
\* U+1680, U+2000..U+200A, U+2028, U+2029, U+202F, U+205F, U+3000 (not U+001C..U+001F)
Whitespace == (9..13) \cup {32, 133, 160, 5760} \cup (8192..8202)
                  \cup {8232, 8233, 8239, 8287, 12288}

RECURSIVE StripLeft(_)
StripLeft(s) == IF s # <<>> /\ Head(s) \in Whitespace THEN StripLeft(Tail(s)) ELSE s

RECURSIVE StripRight(_)
StripRight(s) == IF s # <<>> /\ s[Len(s)] \in Whitespace
                 THEN StripRight(SubSeq(s, 1, Len(s) - 1)) ELSE s

\* int(rgb, 16) succeeds: surrounding whitespace, then an optional sign (+ or -), an
\* optional 0x or 0X (which one underscore may follow), and hexadecimal digits that
\* single underscores may separate; Unicode decimal digits count as their ASCII digits
IntBase16Ok(rgb) ==
    \E s \in {StripRight(StripLeft([i \in 1..Len(rgb) |-> AsciiDigit(rgb[i])]))} :
    LET u == IF s # <<>> /\ Head(s) \in {43, 45} THEN Tail(s) ELSE s
        pre == Len(u) >= 2 /\ u[1] = 48 /\ u[2] \in {120, 88}
        v == IF pre THEN SubSeq(u, 3, Len(u)) ELSE u
        d == IF pre /\ v # <<>> /\ Head(v) = 95 THEN Tail(v) ELSE v
    IN  /\ d # <<>>
        /\ d[1] \in HexDigits
        /\ d[Len(d)] \in HexDigits
        /\ \A i \in 1..Len(d) : d[i] \in HexDigits \cup {95}
        /\ \A i \in 1..(Len(d) - 1) : ~(d[i] = 95 /\ d[i + 1] = 95)

\* the bytes str.encode() makes of the character c: its UTF-8 encoding
Utf8Char(c) ==
    IF c < 128 THEN <<c>>
    ELSE IF c < 2048 THEN <<192 + (c \div 64), 128 + (c % 64)>>
    ELSE IF c < 65536 THEN <<224 + (c \div 4096), 128 + ((c \div 64) % 64), 128 + (c % 64)>>
    ELSE <<240 + (c \div 262144), 128 + ((c \div 4096) % 64), 128 + ((c \div 64) % 64),
           128 + (c % 64)>>

\* str.encode() raises UnicodeEncodeError: s holds a surrogate (U+D800..U+DFFF)
EncodeRaises(s) == \E i \in 1..Len(s) : s[i] \in 55296..57343

RECURSIVE Encode(_)
\* str.encode()
Encode(s) == IF s = <<>> THEN <<>> ELSE Utf8Char(Head(s)) \o Encode(Tail(s))

\* a format that puts the row before the column
FormatCmdSwapped(xx, yy, rgb) ==
    Encode(Str(<<"P", "X", " ">>) \o ToDec(yy) \o <<32>> \o ToDec(xx) \o <<32>> \o rgb \o <<10>>)

\* 'PX {xx} {yy} {rgb}\n'.format(...).encode()
FormatCmd(xx, yy, rgb) ==
    Encode(Str(<<"P", "X", " ">>) \o ToDec(xx) \o <<32>> \o ToDec(yy) \o <<32>> \o rgb \o <<10>>)

RECURSIVE GetCmdsFrom(_, _, _, _, _)
\* the double loop of get_cmds from cell i (row-major) on
GetCmdsFrom(dxx, dyy, im, i, acc) ==
    LET h == Len(im)
        w == Len(im[1])
        y == i \div w
        x == i % w
        rgb == im[y + 1][x + 1]
    IN  IF i >= w * h THEN [raised |-> FALSE, cmds |-> acc]
        ELSE IF rgb = TRANSPARENT THEN GetCmdsFrom(dxx, dyy, im, i + 1, acc)
        ELSE IF ~IntBase16Ok(rgb) THEN [raised |-> TRUE, cmds |-> <<>>]
        ELSE IF Len(rgb) # 6 /\ Len(rgb) # 8 THEN [raised |-> TRUE, cmds |-> <<>>]
        ELSE IF EncodeRaises(rgb) THEN [raised |-> TRUE, cmds |-> <<>>]
        ELSE GetCmdsFrom(dxx, dyy, im, i + 1,
                         Append(acc, FormatCmd(x + dxx, y + dyy, rgb)))

get_cmds(dxx, dyy, im) == GetCmdsFrom(dxx, dyy, im, 0, <<>>)

\* ------------------------------------------------------------------ floats

\* A Python float (an IEEE 754 double) that is not negative is <<bits, e>>: the binary
\* digits of an odd natural, the lowest first, and the power of two that multiplies it;
\* 0.0 is <<<<>>, 0>>.  Every operation rounds its exact result to 53 significant
\* digits, to the nearest float and on a tie to the one whose last digit is even.  (The
\* values met here stay far from overflow and from the subnormal range.)
FloatZero == <<<<>>, 0>>

\* digits are handled Chunk at a time, so that a sum of two chunks stays a small integer
Chunk == 15

Zeros(n) == [i \in 1..n |-> 0]

LowDigits(b, n) == SubSeq(b, 1, IF n < Len(b) THEN n ELSE Len(b))

HighDigits(b, n) == SubSeq(b, (IF n < Len(b) THEN n ELSE Len(b)) + 1, Len(b))

\* the position of the highest digit 1 of b, 0 when there is none
HighOne(b) ==
    LET S == {i \in 1..Len(b) : b[i] = 1}
    IN  IF S = {} THEN 0 ELSE CHOOSE i \in S : \A j \in S : j <= i

\* the position of the lowest digit 1 of b, 0 when there is none
LowOne(b) ==
    LET S == {i \in 1..Len(b) : b[i] = 1}
    IN  IF S = {} THEN 0 ELSE CHOOSE i \in S : \A j \in S : i <= j

\* the w lowest binary digits of the natural n, lowest first
FixBits(n, w) == [i \in 1..w |-> (n \div 2^(i - 1)) % 2]

\* the binary digits of the natural n, lowest first
NatBits(n) == LET b == FixBits(n, 31) IN SubSeq(b, 1, HighOne(b))

RECURSIVE BitsNat(_)
\* the natural whose binary digits are b
BitsNat(b) == IF b = <<>> THEN 0 ELSE Head(b) + 2 * BitsNat(Tail(b))

\* the float bits * 2^e
Dyadic(b, e) ==
    LET h == HighOne(b)
        l == LowOne(b)
    IN  IF h = 0 THEN FloatZero ELSE <<SubSeq(b, l, h), e + l - 1>>

RECURSIVE BitsAdd(_, _, _)
\* the digits of a + b + carry
BitsAdd(a, b, carry) ==
    IF a = <<>> /\ b = <<>> THEN NatBits(carry)
    ELSE LET s == BitsNat(LowDigits(a, Chunk)) + BitsNat(LowDigits(b, Chunk)) + carry
         IN  FixBits(s % 2^Chunk, Chunk) \o BitsAdd(HighDigits(a, Chunk), HighDigits(b, Chunk), s \div 2^Chunk)

RECURSIVE MulChunks(_, _, _)
\* the digits of a * k + carry, for naturals k and carry below 2^(Chunk + 1)
MulChunks(a, k, carry) ==
    IF a = <<>> THEN NatBits(carry)
    ELSE LET p == BitsNat(LowDigits(a, Chunk)) * k + carry
         IN  FixBits(p % 2^Chunk, Chunk) \o MulChunks(HighDigits(a, Chunk), k, p \div 2^Chunk)

\* the digits of a * k, for a natural k
BitsMul(a, k) ==
    BitsAdd(MulChunks(a, k % 2^Chunk, 0), Zeros(Chunk) \o MulChunks(a, k \div 2^Chunk, 0), 0)

\* the sum of two floats, not rounded
ExactAdd(x, y) ==
    IF x = FloatZero THEN y ELSE IF y = FloatZero THEN x ELSE
    LET e == IF x[2] < y[2] THEN x[2] ELSE y[2]
    IN  Dyadic(BitsAdd(Zeros(x[2] - e) \o x[1], Zeros(y[2] - e) \o y[1], 0), e)

\* the float nearest to the exact value x, the even one on a tie
Round53(x) ==
    LET b == x[1]
        d == Len(b) - 53
    IN  IF d <= 0 THEN x
        ELSE LET kept == SubSeq(b, d + 1, Len(b))
                 up == b[d] = 1 /\ (kept[1] = 1 \/ \E i \in 1..(d - 1) : b[i] = 1)
             IN  Dyadic(IF up THEN BitsAdd(kept, <<1>>, 0) ELSE kept, x[2] + d)

RECURSIVE DivBits(_, _, _, _)
\* long division: hb are the digits of the dividend still to bring down, the highest
\* first, rem the remainder so far and q the quotient digits so far, the lowest first
DivBits(hb, d, rem, q) ==
    IF hb = <<>> THEN <<q, rem>>
    ELSE IF 2 * rem + Head(hb) >= d
         THEN DivBits(Tail(hb), d, 2 * rem + Head(hb) - d, <<1>> \o q)
         ELSE DivBits(Tail(hb), d, 2 * rem + Head(hb), <<0>> \o q)

RECURSIVE DivChunks(_, _, _)
\* the same division, Chunk digits of the dividend at a time; st is <<q, rem>>
DivChunks(hb, d, st) ==
    IF hb = <<>> THEN st
    ELSE LET r == DivBits(LowDigits(hb, Chunk), d, st[2], <<>>)
         IN  DivChunks(HighDigits(hb, Chunk), d, <<r[1] \o st[1], r[2]>>)

\* the number of quotient digits computed below the units
DivShift == 96

\* float(n) / d for naturals n and d > 0: the quotient of n * 2^DivShift by d, with one
\* more digit that says whether a remainder was left, rounded
FloatDiv(n, d) ==
    IF n = 0 THEN FloatZero ELSE
    LET nb == NatBits(n)
        hb == [i \in 1..(Len(nb) + DivShift) |-> IF i <= Len(nb) THEN nb[Len(nb) + 1 - i] ELSE 0]
        r  == DivChunks(hb, d, <<<<>>, 0>>)
    IN  Round53(Dyadic(<<IF r[2] = 0 THEN 0 ELSE 1>> \o r[1], -(DivShift + 1)))

\* x * k for a float x and a natural k
FloatMul(x, k) == IF x = FloatZero \/ k = 0 THEN FloatZero ELSE Round53(Dyadic(BitsMul(x[1], k), x[2]))

\* x + y for two floats
FloatAdd(x, y) ==
    IF x = FloatZero THEN y ELSE IF y = FloatZero THEN x ELSE Round53(ExactAdd(x, y))

\* int(x): the whole part of the float x
PyInt(x) ==
    IF x[2] >= 0 THEN BitsNat(Zeros(x[2]) \o x[1])
    ELSE BitsNat(SubSeq(x[1], 1 - x[2], Len(x[1])))

\* round(x) of Python 3 for the fraction a = <<n, d>>: to the nearest integer, a tie to the even one
PyRound(a) ==
    LET q == a[1] \div a[2]
        r == a[1] % a[2]
    IN  IF 2 * r < a[2] THEN q
        ELSE IF 2 * r > a[2] THEN q + 1
        ELSE IF q % 2 = 0 THEN q ELSE q + 1

\* ------------------------------------------------------------ dictionaries

SockObj(s) == <<"socket", s>>

SelectorKey(s) == <<"SelectorKey", s>>

\* d.get(key, b'')
DictGet(d, key) == IF key \in DOMAIN d THEN d[key] ELSE <<>>

\* d[key] = val
DictSet(d, key, val) == [k \in DOMAIN d \cup {key} |-> IF k = key THEN val ELSE d[k]]

EmptyDict == [k \in {} |-> <<>>]

\* ------------------------------------------------------------------- state

VARIABLES
    socks,       \* every socket ever created: [st |-> "none"|"open"|"closed", ep |-> endpoint]
    sel,         \* ids of the sockets registered in self.sel
    buf,         \* self.buf: dictionary from socket to residual bytes
    cmd_str,     \* self.cmd_str: dictionary from key object to blob
    px_cnt,      \* self.px_cnt
    px_per_str,  \* self.px_per_str
    dx, dy, url, ep, img,   \* Loops: self.dx, self.dy, self.url, (self.hostname, self.port), self.img
    main_pc,     \* Loops.__init__: "connect", "set_cmd", then "run" (both loops started) or "failed";
                 \* "exited" once the process has ended
    snd_pc,      \* the send loop: "select", "send", "store_buf", "refill", "load_px", "div_len",
                 \* "store_px", "dead"
    snd_ready,   \* sockets select() returned that send_idle has not served yet
    snd_sock,    \* send's parameter sock
    snd_data,    \* send's local data
    snd_sent,    \* send's local sent
    snd_old,     \* the value of self.px_cnt that "+=" loaded
    snd_quot,    \* the value of "float(sent) / len(self.cmd_str)"
    api_pc,      \* api_loop's position, "dead" after an uncaught exception
    api_tmp,     \* get_px_cnt's local px_cnt
    api_resp,    \* call_api's answer: [dx, dy, url, ep]
    api_cmds,    \* set_cmd_list's parameter cmds
    api_keys,    \* what set_cmd_list's loop has still to visit
    api_ret,     \* where api_loop continues after set_cmd_list
    api_exc,     \* the call whose exception ended api_loop, "none" while it runs
    nsends,      \* number of sock.send calls made
    cancelled,   \* history: KeyboardInterrupt was raised in the main thread
    ncycles,     \* number of call_api calls made by api_loop
    pubCmds,     \* history: the command list of the last set_cmd_list that covered the connection
    cycOn,       \* history: send has refilled buf[s] at least once
    cyc,         \* history: the bytes socket s has accepted since send last refilled buf[s]
    cycDirty,    \* history: set_cmd_list has stored a blob for connection s since that refill
    cycBlob,     \* history: what that refill put into buf[s]
    cycFromPub,  \* history: that refill was empty or the blob then stored for connection s
    cycWrites,   \* history: the sock.send calls since that refill that were offered bytes
    lastCyc,     \* history: the refill-to-refill cycle completed last: its socket, its bytes,
                 \* the commands set_cmd_list gave that connection (if it gave none meanwhile)
    sumIncr,     \* history: the sum of the increments send has added to px_cnt
    sumRead,     \* history: the sum of the values get_px_cnt has read
    bytesSince,  \* history: bytes whose increment was added since get_px_cnt last read
    readAt,      \* history: bytesSince when get_px_cnt read
    lastRet,     \* history: what the last get_px_cnt call returned and after how many bytes
    sentOnDead,  \* history: send was called with a socket that disconnect had closed or unregistered
    sentAfterChange, \* history: send was called after api_loop acted on an endpoint change
    failedSock,  \* history: the socket whose sock.send raised, 0 if none did
    lastConn,    \* history: the last connect call: which attempt was refused or raised
                 \* another error (0: none), the connections made, the no-connections error
    epChange     \* history: the last endpoint change api_loop acted on

senderVars == <<socks, sel, buf, cmd_str, px_cnt, px_per_str>>
loopsVars == <<dx, dy, url, ep, img>>
sndVars == <<snd_pc, snd_ready, snd_sock, snd_data, snd_sent, snd_old, snd_quot>>
apiVars == <<api_pc, api_tmp, api_resp, api_cmds, api_keys, api_ret, api_exc>>
histVars == <<nsends, cancelled, ncycles, pubCmds, cycOn, cyc, cycDirty, cycBlob, cycFromPub, cycWrites, lastCyc,
              sumIncr, sumRead, bytesSince, readAt, lastRet, sentOnDead, sentAfterChange,
              failedSock, lastConn, epChange>>
vars == <<senderVars, loopsVars, main_pc, sndVars, apiVars, histVars>>

NoCyc == [done |-> FALSE, sock |-> 0, bytes |-> <<>>, stable |-> TRUE, cmds |-> <<>>, blob |-> <<>>, writes |-> 0]
NoRet == [n |-> 0, value |-> 0, bytes |-> 0]
NoConn == [called |-> FALSE, ep |-> "-", refusedAt |-> 0, errorAt |-> 0, made |-> 0, raised |-> FALSE]
NoChange == [seen |-> FALSE, old |-> {}, refusedAll |-> FALSE]

\* ------------------------------------------------------------------ Sender

\* self.sel.get_map().values(): the SelectorKey of every registered socket
GetMapValues(m) == {SelectorKey(s) : s \in m}

\* the socket, if any, that a key object designates
ConnOf(key) == key[2]

\* selectors' _fileobj_lookup: a registered file object or something with fileno()
UnregisterRaises(obj) == obj[1] # "socket"

RECURSIVE ConnectMade(_)
\* Sender.connect's loop over range(max_socks): outcomes[i] is what the i-th
\* create_connection does; the loop breaks at the first ConnectionRefusedError and is
\* left by any other exception
ConnectMade(outcomes) ==
    IF outcomes = <<>> \/ Head(outcomes) # "accepted" THEN 0
    ELSE 1 + ConnectMade(Tail(outcomes))

\* the attempt that ends the loop early, 0 when every attempt is accepted
FirstFailure(outcomes) ==
    IF ConnectMade(outcomes) = Len(outcomes) THEN 0 ELSE ConnectMade(outcomes) + 1

\* create_connection raises an OSError that is no ConnectionRefusedError (a timeout, an
\* unreachable host, no descriptor left): "except ConnectionRefusedError" lets it pass
ConnectErrors(outcomes) ==
    FirstFailure(outcomes) # 0 /\ outcomes[FirstFailure(outcomes)] = "error"

\* the sockets connect creates and registers for EVENT_WRITE: the first n unused ones
NewSocks(sk, n) == {s \in SockIds : sk[s].st = "none" /\
                       Cardinality({t \in SockIds : t < s /\ sk[t].st = "none"}) < n}

ConnectSocks(sk, e, n) ==
    [s \in SockIds |-> IF s \in NewSocks(sk, n) THEN [st |-> "open", ep |-> e] ELSE sk[s]]

\* a disconnect that raises nothing and forgets every connection without closing it
DisconnectForgetting(m) == [raised |-> FALSE, sel |-> {}, closed |-> {}]

\* "if len(self.sel.get_map()) < 1: raise ConnectionRefusedError"
ConnectRaises(m) == Cardinality(m) < 1

\* a disconnect that unregisters and closes the file object of every key
DisconnectClosing(m) == [raised |-> FALSE, sel |-> {}, closed |-> m]

\* Sender.disconnect: the loop unregisters and closes what get_map().values() yields.
\* unregister raises ValueError for the first SelectorKey; had it been handed a socket,
\* the mapping would have changed size under the iteration after the first removal.
Disconnect(m) ==
    IF GetMapValues(m) = {} THEN [raised |-> FALSE, sel |-> m, closed |-> {}]
    ELSE LET first == CHOOSE k \in GetMapValues(m) :
                          \A o \in GetMapValues(m) : ConnOf(k) <= ConnOf(o)
         IN  IF UnregisterRaises(first)
             THEN [raised |-> TRUE, sel |-> m, closed |-> {}]
             ELSE [raised |-> TRUE, sel |-> m \ {ConnOf(first)}, closed |-> {ConnOf(first)}]

\* "data = self.buf.get(sock, b'')"
BufGet(b, s) == DictGet(b, SockObj(s))

\* a lookup that takes the blob of the first entry, whatever its key
CmdStrGetFirst(c, s) ==
    IF DOMAIN c = {} THEN <<>>
    ELSE c[CHOOSE k \in DOMAIN c : \A o \in DOMAIN c : ConnOf(k) <= ConnOf(o)]

\* "self.cmd_str.get(sock, b'')"
CmdStrGet(c, s) == DictGet(c, SockObj(s))

\* how many bytes the kernel may accept of n offered: the sockets are non-blocking
\* (line 163), so of a non-empty buffer it takes at least one byte, and any number up
\* to n, or send raises
Accepts(n) == IF n = 0 THEN {0} ELSE 1..n

\* sock.send(data): the accepted byte count, or an exception (a closed descriptor,
\* a connection the peer has reset)
SockSend(sk, s, data) ==
    IF sk[s].st # "open" THEN {[raised |-> TRUE, sent |-> 0]}
    ELSE {[raised |-> TRUE, sent |-> 0]} \cup {[raised |-> FALSE, sent |-> k] : k \in Accepts(Len(data))}

\* an exception of sock.send leaves send, send_idle and sending_loop: nothing catches it
\* (the result is the send loop's position and the selector map)
SendFailure(m, s) == [pc |-> "dead", sel |-> m]

\* "float(sent) / len(self.cmd_str)": len of a dictionary is its number of entries
PxQuotient(c, sent) == FloatDiv(sent, Cardinality(DOMAIN c))

\* the division raises ZeroDivisionError
PxQuotientRaises(c) == Cardinality(DOMAIN c) = 0

\* "float(sent) / len(self.cmd_str) * self.px_per_str"
PxIncrement(c, pps, sent) == FloatMul(PxQuotient(c, sent), pps)

\* ---------------------------------------------------------- Loops.__init__

Responses == [dx : DXs, dy : DYs, url : Urls, ep : Endpoints]

\* history: the attempt at which the wall refuses (0 when the loop does not end so)
FirstRefusal(o) == IF ConnectErrors(o) THEN 0 ELSE FirstFailure(o)

\* history: the attempt that raises another OSError (0 when none does)
FirstError(o) == IF ConnectErrors(o) THEN FirstFailure(o) ELSE 0

\* what each create_connection of one connect call would do
Outcomes == {o \in [1..max_socks -> {"accepted", "refused", "error"}] :
                 Cardinality({s \in SockIds : socks[s].st = "none"}) >= ConnectMade(o)}

\* the state once Sender() is constructed and the first call_api and load_img returned
\* (the control channel's first answer: offset (0, 0), wall1, and img1 or the invalid img3)
Init ==
    /\ socks = [s \in SockIds |-> [st |-> "none", ep |-> "-"]]
    /\ sel = {}
    /\ buf = EmptyDict
    /\ cmd_str = EmptyDict
    /\ px_cnt = FloatZero
    /\ px_per_str = PxUnset
    /\ dx = 0 /\ dy = 0 /\ url \in {"img1", "img3"} /\ ep = "wall1"
    /\ img = load_img(url)
    /\ main_pc = "connect"
    /\ snd_pc = "select" /\ snd_ready = {} /\ snd_sock = 0 /\ snd_data = <<>>
    /\ snd_sent = 0 /\ snd_old = FloatZero /\ snd_quot = FloatZero
    /\ api_pc = "get_px" /\ api_tmp = FloatZero
    /\ api_resp = [dx |-> dx, dy |-> dy, url |-> url, ep |-> ep]
    /\ api_cmds = <<>> /\ api_keys = {} /\ api_ret = "get_px" /\ api_exc = "none"
    /\ nsends = 0 /\ ncycles = 0 /\ cancelled = FALSE
    /\ cyc = [s \in SockIds |-> <<>>]
    /\ pubCmds = [s \in SockIds |-> <<>>]
    /\ cycOn = [s \in SockIds |-> FALSE]
    /\ cycFromPub = [s \in SockIds |-> TRUE]
    /\ cycDirty = [s \in SockIds |-> FALSE]
    /\ cycBlob = [s \in SockIds |-> <<>>]
    /\ cycWrites = [s \in SockIds |-> 0]
    /\ lastCyc = NoCyc
    /\ sumIncr = FloatZero /\ sumRead = FloatZero /\ bytesSince = 0
    /\ readAt = 0 /\ lastRet = NoRet
    /\ sentOnDead = FALSE /\ sentAfterChange = FALSE /\ failedSock = 0
    /\ lastConn = NoConn /\ epChange = NoChange

\* "self.sender.connect(self.hostname, self.port)" of Loops.__init__
InitConnect ==
    /\ main_pc = "connect"
    /\ \E o \in Outcomes :
          LET n == ConnectMade(o)
              m == sel \cup NewSocks(socks, n)
          IN  /\ socks' = ConnectSocks(socks, ep, n)
              /\ sel' = m
              /\ lastConn' = [called |-> TRUE, ep |-> ep, refusedAt |-> FirstRefusal(o),
                              errorAt |-> FirstError(o), made |-> n,
                              raised |-> ~ConnectErrors(o) /\ ConnectRaises(m)]
              /\ main_pc' = IF ConnectErrors(o) \/ ConnectRaises(m) THEN "failed"
                            ELSE "set_cmd"
    /\ UNCHANGED <<buf, cmd_str, px_cnt, px_per_str, loopsVars, sndVars, apiVars>>
    /\ UNCHANGED <<nsends, cancelled, ncycles, pubCmds, cycOn, cyc, cycDirty, cycBlob, cycFromPub, cycWrites, lastCyc,
                   sumIncr, sumRead, bytesSince, readAt, lastRet, sentOnDead,
                   sentAfterChange, failedSock, epChange>>

\* cmd_str after "self.cmd_str[key] = b''.join(cmds)" for every key of f
StoreBlobs(c, f) ==
    [k \in DOMAIN c \cup DOMAIN f |-> IF k \in DOMAIN f THEN Join(f[k]) ELSE c[k]]

\* history: cmds are published for the connections the keys of f designate
Published(f, cmds) ==
    /\ pubCmds' = [s \in SockIds |->
                     IF \E k \in DOMAIN f : ConnOf(k) = s THEN cmds ELSE pubCmds[s]]
    /\ cycDirty' = [s \in SockIds |->
                      cycDirty[s] \/ (cycOn[s] /\ \E k \in DOMAIN f : ConnOf(k) = s)]

\* "self.sender.set_cmd_list(get_cmds(self.dx, self.dy, self.img))" of Loops.__init__
InitSetCmdList ==
    /\ main_pc = "set_cmd"
    /\ LET r == get_cmds(dx, dy, img)
       IN  IF r.raised
           THEN /\ main_pc' = "failed"
                /\ UNCHANGED <<cmd_str, px_per_str, pubCmds, cycDirty>>
           ELSE /\ \E f \in [GetMapValues(sel) -> Perms(r.cmds)] :
                      /\ cmd_str' = StoreBlobs(cmd_str, f)
                      /\ Published(f, r.cmds)
                /\ px_per_str' = Len(r.cmds)
                /\ main_pc' = "run"
    /\ UNCHANGED <<socks, sel, buf, px_cnt, loopsVars, sndVars, apiVars>>
    /\ UNCHANGED <<nsends, cancelled, ncycles, cycOn, cyc, cycBlob, cycFromPub, cycWrites, lastCyc,
                   sumIncr, sumRead, bytesSince, readAt, lastRet, sentOnDead,
                   sentAfterChange, failedSock, lastConn, epChange>>

\* ------------------------------------------------------------ the send loop

\* "for k, v in self.sel.select()": blocks until some registered socket is writable
SendIdleSelect ==
    /\ main_pc = "run"
    /\ snd_pc = "select"
    /\ nsends < MaxSends
    /\ \E R \in (SUBSET sel) \ {{}} : snd_ready' = R
    /\ snd_pc' = "send"
    /\ UNCHANGED <<senderVars, loopsVars, main_pc, snd_sock, snd_data, snd_sent, snd_old,
                   snd_quot, apiVars, histVars>>

\* history: send(s) found data empty, so a refill-to-refill cycle of s ends and one starts
CycleTurns(s, refill) ==
    /\ lastCyc' = IF cycOn[s]
                   THEN [done |-> TRUE, sock |-> s, bytes |-> cyc[s],
                         stable |-> ~cycDirty[s],
                         cmds |-> IF cycDirty[s] THEN <<>> ELSE pubCmds[s],
                         blob |-> cycBlob[s], writes |-> cycWrites[s]]
                   ELSE lastCyc
    /\ cycWrites' = [cycWrites EXCEPT ![s] = 0]
    /\ cycOn' = [cycOn EXCEPT ![s] = TRUE]
    /\ cyc' = [cyc EXCEPT ![s] = <<>>]
    /\ cycFromPub' = [cycFromPub EXCEPT ![s] =
                        refill = <<>> \/ \E k \in DOMAIN cmd_str :
                                            ConnOf(k) = s /\ cmd_str[k] = refill]
    /\ cycDirty' = [cycDirty EXCEPT ![s] = FALSE]
    /\ cycBlob' = [cycBlob EXCEPT ![s] = refill]

\* "self.send(k.fileobj)": "data = self.buf.get(sock, b'')" and "sent = sock.send(data)",
\* which returns the number of bytes the socket accepted or raises
SendCall ==
    /\ snd_pc = "send"
    /\ nsends < MaxSends
    /\ \E s \in snd_ready :
          LET data == BufGet(buf, s)
          IN  \E out \in SockSend(socks, s, data) :
                 /\ nsends' = nsends + 1
                 /\ sentOnDead' = (sentOnDead \/ socks[s].st = "closed" \/ s \notin sel)
                 /\ sentAfterChange' = (sentAfterChange \/ epChange.seen)
                 /\ snd_ready' = snd_ready \ {s}
                 /\ snd_sock' = s
                 /\ snd_data' = data
                 /\ snd_sent' = out.sent
                 /\ IF out.raised
                    THEN /\ snd_pc' = IF SendFailure(sel, s).pc = "dead" THEN "dead"
                                      ELSE IF snd_ready \ {s} = {} THEN "select" ELSE "send"
                         /\ sel' = SendFailure(sel, s).sel
                         /\ failedSock' = s
                         /\ UNCHANGED <<cyc, cycWrites>>
                    ELSE /\ snd_pc' = "store_buf"
                         /\ IF Len(data) = 0
                            THEN UNCHANGED <<cyc, cycWrites>>
                            ELSE /\ cyc' = [cyc EXCEPT ![s] = @ \o Take(data, out.sent)]
                                 /\ cycWrites' = [cycWrites EXCEPT ![s] = @ + 1]
                         /\ UNCHANGED <<sel, failedSock>>
    /\ UNCHANGED <<socks, buf, cmd_str, px_cnt, px_per_str, loopsVars, main_pc, snd_old,
                   snd_quot, apiVars>>
    /\ UNCHANGED <<cancelled, ncycles, pubCmds, cycOn, cycDirty, cycBlob, cycFromPub, lastCyc,
                   sumIncr, sumRead, bytesSince, readAt, lastRet, lastConn, epChange>>

\* "self.buf[sock] = data[sent:]" and the test "if len(data) == 0" on the local data
SendStoreBuf ==
    /\ snd_pc = "store_buf"
    /\ buf' = DictSet(buf, SockObj(snd_sock), Drop(snd_data, snd_sent))
    /\ snd_pc' = IF Len(snd_data) = 0 THEN "refill" ELSE "load_px"
    /\ UNCHANGED <<socks, sel, cmd_str, px_cnt, px_per_str, loopsVars, main_pc, snd_ready,
                   snd_sock, snd_data, snd_sent, snd_old, snd_quot, apiVars, histVars>>

\* the refill "self.buf[sock] = self.cmd_str.get(sock, b'')"
SendRefill ==
    /\ snd_pc = "refill"
    /\ buf' = DictSet(buf, SockObj(snd_sock), CmdStrGet(cmd_str, snd_sock))
    /\ CycleTurns(snd_sock, CmdStrGet(cmd_str, snd_sock))
    /\ snd_pc' = "load_px"
    /\ UNCHANGED <<socks, sel, cmd_str, px_cnt, px_per_str, loopsVars, main_pc, snd_ready,
                   snd_sock, snd_data, snd_sent, snd_old, snd_quot, apiVars>>
    /\ UNCHANGED <<nsends, cancelled, ncycles, pubCmds, sumIncr, sumRead, bytesSince, readAt,
                   lastRet, sentOnDead, sentAfterChange, failedSock, lastConn, epChange>>

\* of "self.px_cnt += ..." the load of the old value, which comes before the right-hand
\* side is evaluated
SendLoadPx ==
    /\ snd_pc = "load_px"
    /\ snd_old' = px_cnt
    /\ snd_pc' = "div_len"
    /\ UNCHANGED <<senderVars, loopsVars, main_pc, snd_ready, snd_sock, snd_data, snd_sent,
                   snd_quot, apiVars, histVars>>

\* "self.px_cnt += float(sent) / len(self.cmd_str) ...": the quotient, which reads
\* self.cmd_str; ZeroDivisionError when the dictionary is empty
SendDivLen ==
    /\ snd_pc = "div_len"
    /\ IF PxQuotientRaises(cmd_str)
       THEN /\ snd_pc' = "dead"
            /\ snd_sock' = 0 /\ snd_data' = <<>> /\ snd_sent' = 0 /\ snd_old' = FloatZero
            /\ UNCHANGED snd_quot
       ELSE /\ snd_quot' = PxQuotient(cmd_str, snd_sent)
            /\ snd_pc' = "store_px"
            /\ UNCHANGED <<snd_sock, snd_data, snd_sent, snd_old>>
    /\ UNCHANGED <<senderVars, loopsVars, main_pc, snd_ready, apiVars, histVars>>

\* "self.px_cnt += ... * self.px_per_str": self.px_per_str is read (AttributeError when
\* set_cmd_list has never assigned it), the product added to the value loaded and the
\* sum stored; send returns
SendStorePx ==
    /\ snd_pc = "store_px"
    /\ IF px_per_str = PxUnset
       THEN /\ snd_pc' = "dead"
            /\ UNCHANGED <<px_cnt, sumIncr, bytesSince>>
       ELSE /\ px_cnt' = FloatAdd(snd_old, FloatMul(snd_quot, px_per_str))
            /\ sumIncr' = ExactAdd(sumIncr, FloatMul(snd_quot, px_per_str))
            /\ bytesSince' = bytesSince + snd_sent
            /\ snd_pc' = IF snd_ready = {} THEN "select" ELSE "send"
    /\ snd_sock' = 0 /\ snd_data' = <<>> /\ snd_sent' = 0 /\ snd_old' = FloatZero
    /\ snd_quot' = FloatZero
    /\ UNCHANGED <<socks, sel, buf, cmd_str, px_per_str, loopsVars, main_pc, snd_ready,
                   apiVars>>
    /\ UNCHANGED <<nsends, cancelled, ncycles, pubCmds, cycOn, cyc, cycDirty, cycBlob, cycFromPub, cycWrites, lastCyc,
                   sumRead, readAt, lastRet, sentOnDead, sentAfterChange, failedSock,
                   lastConn, epChange>>

\* ----------------------------------------------------------------- api_loop

\* get_px_cnt: "px_cnt = self.px_cnt"
ApiGetPxRead ==
    /\ main_pc = "run"
    /\ api_pc = "get_px"
    /\ api_tmp' = px_cnt
    /\ api_pc' = "reset_px"
    /\ readAt' = bytesSince
    /\ UNCHANGED <<senderVars, loopsVars, main_pc, sndVars, api_resp, api_cmds, api_keys,
                   api_ret, api_exc>>
    /\ UNCHANGED <<nsends, cancelled, ncycles, pubCmds, cycOn, cyc, cycDirty, cycBlob, cycFromPub, cycWrites, lastCyc,
                   sumIncr, sumRead, bytesSince, lastRet, sentOnDead, sentAfterChange,
                   failedSock, lastConn, epChange>>

\* get_px_cnt: "self.px_cnt = 0.0; return int(px_cnt)"
ApiGetPxReset ==
    /\ api_pc = "reset_px"
    /\ px_cnt' = FloatZero
    /\ api_pc' = "call_api"
    /\ sumRead' = ExactAdd(sumRead, api_tmp)
    /\ bytesSince' = 0
    /\ lastRet' = [n |-> IF lastRet.n < 2 THEN lastRet.n + 1 ELSE 2,
                   value |-> PyInt(api_tmp),
                   bytes |-> readAt]
    /\ api_tmp' = FloatZero
    /\ readAt' = 0
    /\ UNCHANGED <<socks, sel, buf, cmd_str, px_per_str, loopsVars, main_pc, sndVars,
                   api_resp, api_cmds, api_keys, api_ret, api_exc>>
    /\ UNCHANGED <<nsends, cancelled, ncycles, pubCmds, cycOn, cyc, cycDirty, cycBlob, cycFromPub, cycWrites, lastCyc,
                   sumIncr, sentOnDead, sentAfterChange, failedSock, lastConn, epChange>>

\* "call_api(...)": an answer of six tokens, or an exception ('Error' in the response,
\* a response that does not unpack), which nothing in api_loop catches
ApiCall ==
    /\ api_pc = "call_api"
    /\ ncycles < MaxCycles
    /\ ncycles' = ncycles + 1
    /\ \E r \in Responses, raises \in BOOLEAN :
          IF raises
          THEN api_pc' = "dead" /\ api_exc' = "call_api" /\ UNCHANGED api_resp
          ELSE api_pc' = "check_url" /\ api_resp' = r /\ UNCHANGED api_exc
    /\ UNCHANGED <<senderVars, loopsVars, main_pc, sndVars, api_tmp, api_cmds, api_keys,
                   api_ret>>
    /\ UNCHANGED <<nsends, cancelled, pubCmds, cycOn, cyc, cycDirty, cycBlob, cycFromPub, cycWrites, lastCyc,
                   sumIncr, sumRead, bytesSince, readAt, lastRet, sentOnDead,
                   sentAfterChange, failedSock, lastConn, epChange>>

\* set_cmd_list(get_cmds(...)) would call set_cmd_list with the failed build
SetCmdListAlways(r) == TRUE

\* set_cmd_list(get_cmds(...)): the argument is evaluated first, so set_cmd_list is
\* called only when get_cmds returned
SetCmdListCalled(r) == ~r.raised

\* entering set_cmd_list(cmds) from api_loop, or dying of get_cmds' ValueError
ApiPublish(r, ret) ==
    IF ~SetCmdListCalled(r)
    THEN api_pc' = "dead" /\ api_exc' = "get_cmds" /\ UNCHANGED <<api_cmds, api_keys, api_ret>>
    ELSE /\ api_pc' = "set_cmd"
         /\ api_cmds' = r.cmds
         /\ api_keys' = GetMapValues(sel)
         /\ api_ret' = ret
         /\ UNCHANGED api_exc

\* "if nurl != self.url": self.url is assigned and load_img begins to fetch the image
ApiCheckUrl ==
    /\ api_pc = "check_url"
    /\ IF api_resp.url # url
       THEN url' = api_resp.url /\ api_pc' = "load_img"
       ELSE api_pc' = "check_off" /\ UNCHANGED url
    /\ UNCHANGED <<senderVars, dx, dy, ep, img, main_pc, sndVars, api_tmp, api_resp, api_cmds,
                   api_keys, api_ret, api_exc, histVars>>

\* urlopen of load_img returns: self.img is assigned and compiled with the current offset;
\* or load_img raises (urlopen's URLError, IndexError on an empty answer), which ends
\* api_loop with the new url in self.url and the old image in self.img
ApiLoadImg ==
    /\ api_pc = "load_img"
    /\ \E load_raises \in BOOLEAN :
          IF load_raises
          THEN /\ api_pc' = "dead"
               /\ api_exc' = "load_img"
               /\ UNCHANGED <<img, api_cmds, api_keys, api_ret>>
          ELSE /\ img' = load_img(url)
               /\ ApiPublish(get_cmds(dx, dy, load_img(url)), "check_off")
    /\ UNCHANGED <<senderVars, dx, dy, url, ep, main_pc, sndVars, api_tmp, api_resp, histVars>>

\* "if ndx != self.dx or ndy != self.dy": compile the current image with the new offset
ApiCheckOffset ==
    /\ api_pc = "check_off"
    /\ IF api_resp.dx # dx \/ api_resp.dy # dy
       THEN /\ dx' = api_resp.dx
            /\ dy' = api_resp.dy
            /\ ApiPublish(get_cmds(api_resp.dx, api_resp.dy, img), "check_ep")
       ELSE /\ api_pc' = "check_ep"
            /\ UNCHANGED <<dx, dy, api_cmds, api_keys, api_ret, api_exc>>
    /\ UNCHANGED <<senderVars, url, ep, img, main_pc, sndVars, api_tmp, api_resp, histVars>>

\* one turn of set_cmd_list's loop (random.shuffle reorders cmds in place, join, store),
\* or after the loop "self.px_per_str = len(cmds)" and the return to api_loop
ApiSetCmdStep ==
    /\ api_pc = "set_cmd"
    /\ IF api_keys = {}
       THEN /\ px_per_str' = Len(api_cmds)
            /\ api_pc' = api_ret
            /\ api_cmds' = <<>>
            /\ UNCHANGED <<cmd_str, api_keys, pubCmds, cycDirty>>
       ELSE LET k == CHOOSE j \in api_keys : \A o \in api_keys : ConnOf(j) <= ConnOf(o)
            IN  /\ \E p \in Perms(api_cmds) :
                      /\ cmd_str' = StoreBlobs(cmd_str, [j \in {k} |-> p])
                      /\ Published([j \in {k} |-> p], api_cmds)
                      /\ api_cmds' = p
                /\ api_keys' = api_keys \ {k}
                /\ UNCHANGED <<px_per_str, api_pc>>
    /\ UNCHANGED <<socks, sel, buf, px_cnt, loopsVars, main_pc, sndVars, api_tmp, api_resp,
                   api_ret, api_exc>>
    /\ UNCHANGED <<nsends, cancelled, ncycles, cycOn, cyc, cycBlob, cycFromPub, cycWrites, lastCyc,
                   sumIncr, sumRead, bytesSince, readAt, lastRet, sentOnDead,
                   sentAfterChange, failedSock, lastConn, epChange>>

\* the sockets of sk with those of the set closed
CloseSocks(sk, closed) ==
    [s \in SockIds |-> IF s \in closed THEN [st |-> "closed", ep |-> sk[s].ep] ELSE sk[s]]

\* "if nhostname != self.hostname or nport != self.port": disconnect(), then connect(...);
\* an exception of either ends api_loop; otherwise "time.sleep(10.0)" and the next turn
ApiCheckEndpoint ==
    /\ api_pc = "check_ep"
    /\ IF api_resp.ep # ep
       THEN /\ ep' = api_resp.ep
            /\ \E o \in Outcomes :
                  LET d == Disconnect(sel)
                      sk == CloseSocks(socks, d.closed)
                      n == ConnectMade(o)
                      m == d.sel \cup NewSocks(sk, n)
                  IN  /\ epChange' = [seen |-> TRUE, old |-> sel, refusedAll |-> o[1] # "accepted"]
                      /\ IF d.raised
                         THEN /\ socks' = sk
                              /\ sel' = d.sel
                              /\ api_pc' = "dead"
                              /\ api_exc' = "disconnect"
                              /\ UNCHANGED lastConn
                         ELSE /\ socks' = ConnectSocks(sk, api_resp.ep, n)
                              /\ sel' = m
                              /\ api_pc' = IF ConnectErrors(o) \/ ConnectRaises(m)
                                           THEN "dead" ELSE "get_px"
                              /\ api_exc' = IF ConnectErrors(o) \/ ConnectRaises(m)
                                            THEN "connect" ELSE api_exc
                              /\ lastConn' = [called |-> TRUE, ep |-> api_resp.ep,
                                              refusedAt |-> FirstRefusal(o),
                                              errorAt |-> FirstError(o), made |-> n,
                                              raised |-> ~ConnectErrors(o) /\ ConnectRaises(m)]
       ELSE /\ api_pc' = "get_px"
            /\ UNCHANGED <<ep, socks, sel, epChange, lastConn, api_exc>>
    /\ UNCHANGED <<buf, cmd_str, px_cnt, px_per_str, dx, dy, url, img, main_pc, sndVars,
                   api_tmp, api_resp, api_cmds, api_keys, api_ret>>
    /\ UNCHANGED <<nsends, cancelled, ncycles, pubCmds, cycOn, cyc, cycDirty, cycBlob, cycFromPub, cycWrites, lastCyc,
                   sumIncr, sumRead, bytesSince, readAt, lastRet, sentOnDead,
                   sentAfterChange, failedSock>>

\* the process ends: Loops() raised in main(), which line 261 calls outside any try and
\* before a thread is started; or an exception has left sending_loop and with it the
\* main thread, and api_thread, which is no daemon, has ended too.  The operating system
\* closes the sockets that are still open
ProcessExit ==
    /\ \/ main_pc = "failed"
       \/ main_pc = "run" /\ snd_pc = "dead" /\ api_pc = "dead"
    /\ main_pc' = "exited"
    /\ socks' = CloseSocks(socks, {s \in SockIds : socks[s].st = "open"})
    /\ UNCHANGED <<sel, buf, cmd_str, px_cnt, px_per_str, loopsVars, sndVars, apiVars,
                   histVars>>

Next ==
    \/ InitConnect \/ InitSetCmdList
    \/ SendIdleSelect \/ SendCall \/ SendStoreBuf \/ SendRefill \/ SendLoadPx
    \/ SendDivLen \/ SendStorePx
    \/ ApiGetPxRead \/ ApiGetPxReset \/ ApiCall \/ ApiCheckUrl \/ ApiLoadImg
    \/ ApiCheckOffset \/ ApiSetCmdStep \/ ApiCheckEndpoint
    \/ ProcessExit

Spec == Init /\ [][Next]_vars

\* ------------------------------------- an interrupt of the main thread

\* SIGINT while the main thread is in sending_loop: KeyboardInterrupt is raised there,
\* out of select() or of send(); it is no Exception, no handler of the program catches
\* it, and the main thread ends without closing a socket
Cancel ==
    /\ main_pc = "run"
    /\ snd_pc # "dead"
    /\ ~cancelled
    /\ cancelled' = TRUE
    /\ snd_pc' = "dead"
    /\ UNCHANGED <<senderVars, loopsVars, main_pc, snd_ready, snd_sock, snd_data, snd_sent,
                   snd_old, snd_quot, apiVars>>
    /\ UNCHANGED <<nsends, ncycles, pubCmds, cycOn, cyc, cycDirty, cycBlob,
                   cycFromPub, cycWrites, lastCyc, sumIncr, sumRead, bytesSince, readAt,
                   lastRet, sentOnDead, sentAfterChange, failedSock, lastConn, epChange>>

\* call_api answers with the configuration in force: api_loop's three checks will find
\* nothing to do (such calls are not counted)
ApiCallSame ==
    /\ api_pc = "call_api"
    /\ api_resp' = [dx |-> dx, dy |-> dy, url |-> url, ep |-> ep]
    /\ api_pc' = "check_url"
    /\ UNCHANGED <<senderVars, loopsVars, main_pc, sndVars, api_tmp, api_cmds, api_keys,
                   api_ret, api_exc, histVars>>

CancelNext == Cancel \/ ApiCallSame \/ Next

\* both threads are scheduled again and again
CancelSpec == Init /\ [][CancelNext]_vars /\ WF_vars(CancelNext)

\* --------------------------------------------------- get_cmds on drawn images

\* the cells of the drawn images: the transparent sentinel, an RGB and an RGBA colour,
\* a colour that is too short, one with a letter that is no hexadecimal digit, one
\* that starts with a form feed and one of digits that are not ASCII (EXTENDED
\* ARABIC-INDIC ONE and TWO, FULLWIDTH THREE, MATHEMATICAL BOLD FOUR, twice ARABIC-INDIC
\* TWO)
Colours == {TRANSPARENT,
            Str(<<"f", "f", "0", "0", "0", "0">>),
            Str(<<"0", "0", "0", "0", "f", "f", "8", "0">>),
            Str(<<"f", "f", "f">>),
            Str(<<"g", "g", "0", "0", "0", "0">>),
            <<12>> \o Str(<<"f", "f", "0", "0", "0">>),
            <<1777, 1778, 65299, 120786, 1634, 1634>>}

\* the offsets call_api can return: int(dx), int(dy) of the first two tokens
CmdDXs == {-1, 0}
CmdDYs == {-1, 0}

\* rectangular images: h rows of w cells
Images == UNION {[1..h -> [1..w -> Colours]] : w \in 1..MaxW, h \in 1..MaxH}

\* a caller about to evaluate get_cmds(dx, dy, img) on a drawn image and offset
CmdsInit ==
    /\ socks = [s \in SockIds |-> [st |-> "none", ep |-> "-"]]
    /\ sel = {}
    /\ buf = EmptyDict
    /\ cmd_str = EmptyDict
    /\ px_cnt = FloatZero
    /\ px_per_str = PxUnset
    /\ dx \in CmdDXs /\ dy \in CmdDYs /\ url = "drawn" /\ ep = "wall1"
    /\ img \in Images
    /\ pubCmds = [s \in SockIds |-> <<>>]
    /\ main_pc = "get_cmds"
    /\ snd_pc = "select" /\ snd_ready = {} /\ snd_sock = 0 /\ snd_data = <<>>
    /\ snd_sent = 0 /\ snd_old = FloatZero /\ snd_quot = FloatZero
    /\ api_pc = "get_px" /\ api_tmp = FloatZero
    /\ api_resp = [dx |-> dx, dy |-> dy, url |-> url, ep |-> ep]
    /\ api_cmds = <<>> /\ api_keys = {} /\ api_ret = "get_px" /\ api_exc = "none"
    /\ nsends = 0 /\ ncycles = 0 /\ cancelled = FALSE
    /\ cyc = [s \in SockIds |-> <<>>]
    /\ cycOn = [s \in SockIds |-> FALSE]
    /\ cycFromPub = [s \in SockIds |-> TRUE]
    /\ cycDirty = [s \in SockIds |-> FALSE]
    /\ cycBlob = [s \in SockIds |-> <<>>]
    /\ cycWrites = [s \in SockIds |-> 0]
    /\ lastCyc = NoCyc
    /\ sumIncr = FloatZero /\ sumRead = FloatZero /\ bytesSince = 0
    /\ readAt = 0 /\ lastRet = NoRet
    /\ sentOnDead = FALSE /\ sentAfterChange = FALSE /\ failedSock = 0
    /\ lastConn = NoConn /\ epChange = NoChange

\* get_cmds(dx, dy, img) returns its list or raises ValueError
GetCmdsCall ==
    /\ main_pc = "get_cmds"
    /\ LET r == get_cmds(dx, dy, img)
       IN  /\ main_pc' = IF r.raised THEN "raised" ELSE "returned"
           /\ api_cmds' = r.cmds
    /\ UNCHANGED <<senderVars, loopsVars, sndVars, api_pc, api_tmp, api_resp, api_keys,
                   api_ret, api_exc, histVars>>

CmdsNext == GetCmdsCall

CmdsSpec == CmdsInit /\ [][CmdsNext]_vars

\* ------------------------------------------------------------------ claims

\* the residual of connection s: what buf holds for it, less the bytes the socket has
\* accepted in a call of sock.send whose "self.buf[sock] = data[sent:]" is still to come
ResidualOf(s) ==
    IF snd_pc = "store_buf" /\ snd_sock = s THEN Drop(BufGet(buf, s), snd_sent)
    ELSE BufGet(buf, s)

\* C1: whatever set_cmd_list does while send runs, a residual buffer is refilled only with
\* a whole blob stored for that connection (or with nothing), the bytes the socket has
\* accepted since are the start of that blob and the residual is its rest, and every
\* finished cycle sent the whole of it: no line is cut, spliced or entered in the middle
C1_WireIsWholeBlobs ==
    \A s \in SockIds :
        /\ cycFromPub[s]
        /\ cyc[s] \o ResidualOf(s) = cycBlob[s]
        /\ lastCyc.done => lastCyc.bytes = lastCyc.blob

\* C1: set_cmd_list is replacing blobs (it has stored a new one for connection s)
\* while send is inside a call for that connection
C1_Witness ==
    \E s \in sel : /\ api_pc = "set_cmd"
                   /\ SelectorKey(s) \notin api_keys
                   /\ snd_pc = "store_px"
                   /\ snd_sock = s

\* C2: no increment of px_cnt is lost or counted twice: what get_px_cnt has read so far
\* plus what px_cnt holds equals what send has added
C2_NoLostIncrement == ExactAdd(sumRead, px_cnt) = sumIncr

\* C3: send is never called with a socket that disconnect has closed or unregistered
C3_NeverSendsOnClosed == ~sentOnDead

\* C3: api_loop has acted on an endpoint change and the send loop has called send since
C3_Witness == epChange.seen /\ sentAfterChange

\* C4: a failed write removes the connection from the pool and the send loop goes on
\* serving the others; it stops only when the pool is left empty
C4_FailureDropsConnection ==
    failedSock # 0 => /\ failedSock \notin sel
                      /\ (sel # {} => snd_pc # "dead")

\* C5: the bytes a connection sent from one refill of its buffer to the next, with no
\* set_cmd_list for it in between, are the commands last given to set_cmd_list, each
\* exactly once, in some order
C5_CycleIsPermutation ==
    (lastCyc.done /\ lastCyc.stable) => lastCyc.bytes \in {Join(p) : p \in Perms(lastCyc.cmds)}

\* the blob set_cmd_list has stored for the connection of socket s
BlobOf(s) == cmd_str[CHOOSE k \in DOMAIN cmd_str : ConnOf(k) = s]

\* C6: a write that accepts k bytes of the residual leaves the residual without its first
\* k bytes, and from one refill to the next, whatever the sizes of the writes, the socket
\* accepts exactly the bytes of the blob of its connection
C6_PartialWritesKeepTheStream ==
    /\ (snd_pc = "store_px" /\ Len(snd_data) > 0) =>
           LET b == BufGet(buf, snd_sock)
           IN  /\ Len(b) = Len(snd_data) - snd_sent
               /\ \A i \in 1..Len(b) : b[i] = snd_data[i + snd_sent]
    /\ (lastCyc.done /\ lastCyc.stable /\ ~cycDirty[lastCyc.sock]
           /\ \E k \in DOMAIN cmd_str : ConnOf(k) = lastCyc.sock)
        => lastCyc.bytes = BlobOf(lastCyc.sock)

\* the byte length of the blobs in use
BlobLen == Len(Join(pubCmds[1]))

\* C7: when send has added the increments of B bytes since the last read, get_px_cnt
\* returns round(B / L * P); called again before anything more is sent, it returns 0
C7_ReturnsRoundedShare ==
    (lastRet.n > 0 /\ BlobLen > 0) =>
        lastRet.value = PyRound(<<lastRet.bytes * px_per_str, BlobLen>>)

\* C8: once api_loop has run disconnect() and connect() for a new endpoint, the pool holds
\* at most max_socks open connections, all to the new endpoint, and every socket of the
\* old pool is closed, unregistered and gone from cmd_str and buf
C8_PoolReplaced ==
    epChange.seen =>
        /\ Cardinality(sel) <= max_socks
        /\ \A s \in sel : socks[s].st = "open" /\ socks[s].ep = ep
        /\ \A s \in epChange.old :
               /\ socks[s].st = "closed"
               /\ s \notin sel
               /\ \A k \in DOMAIN cmd_str \cup DOMAIN buf : ConnOf(k) # s

\* C9: connect opens at most max_socks connections, stops at the first refused attempt
\* (after the connections accepted before it), and fails with the no-connections error
\* exactly when this call has established none
C9_ConnectContract ==
    lastConn.called =>
        LET made == Cardinality({s \in sel : socks[s].st = "open" /\ socks[s].ep = lastConn.ep})
        IN  /\ made <= max_socks
            /\ lastConn.refusedAt # 0 => made = lastConn.refusedAt - 1
            /\ lastConn.raised <=> made = 0

\* C10: after an endpoint change whose new wall refuses every connection, and as long as
\* no write has failed, the sockets of the previous pool are still open and registered
\* and the send loop has not stopped
C10_KeepsPreviousPool ==
    (epChange.seen /\ epChange.refusedAll /\ failedSock = 0) =>
        /\ \A s \in epChange.old : socks[s].st = "open" /\ s \in sel
        /\ snd_pc # "dead"

\* C10: the new wall refused everything and send has since been called on the old pool
C10_Witness ==
    /\ epChange.seen /\ epChange.refusedAll
    /\ failedSock = 0
    /\ sentAfterChange
    /\ snd_pc = "store_px"
    /\ snd_sock \in epChange.old

\* C11: a control-channel call that fails does not end api_loop: the controller goes on to
\* its next cycle (and calls the control channel again), and the send loop is not stopped
C11_RetriesAfterFailedCall ==
    api_exc = "call_api" => /\ api_pc # "dead"
                            /\ (snd_pc = "dead" => failedSock # 0)

\* C12: the api_loop step that compiles the new image and finds it invalid (get_cmds
\* raises) does not enter set_cmd_list and leaves cmd_str, px_per_str, every residual
\* buffer, the pool and the send loop's position as they were
C12_FailedBuildLeavesSender ==
    [][(/\ api_pc = "load_img"
        /\ api_pc' # "load_img"
        /\ api_exc' # "load_img"
        /\ get_cmds(dx, dy, load_img(url)).raised)
       => (/\ api_pc' # "set_cmd"
           /\ cmd_str' = cmd_str
           /\ px_per_str' = px_per_str
           /\ buf' = buf
           /\ sel' = sel
           /\ snd_pc' = snd_pc)]_vars

\* C12: get_cmds has failed on the new image and the send loop is inside a send call
C12_Witness ==
    /\ api_exc = "get_cmds"
    /\ get_cmds(dx, dy, img).raised
    /\ snd_pc = "store_px"

\* a colour of 6 or 8 hexadecimal digits
ValidColour(c) == Len(c) \in {6, 8} /\ \A i \in 1..Len(c) : c[i] \in HexDigits

\* the cells <<x, y>> of an image, and those that are not the transparent sentinel
CellsOf(im) == {<<x, y>> : x \in 0..(Len(im[1]) - 1), y \in 0..(Len(im) - 1)}
VisibleCells(im) == {c \in CellsOf(im) : im[c[2] + 1][c[1] + 1] # TRANSPARENT}

\* the line 'PX x+dx y+dy color' and its newline, for cell c of img, as bytes
LineOf(c) ==
    Encode(Str(<<"P", "X", " ">>) \o ToDec(c[1] + dx) \o <<32>> \o ToDec(c[2] + dy) \o <<32>>
               \o img[c[2] + 1][c[1] + 1] \o <<10>>)

\* C13: on an image of valid colours get_cmds returns, for every offset, exactly the
\* lines of the cells that are not transparent, one each: w*h - k commands, and none
\* (an empty blob, pixel count 0) when every cell is transparent
C13_OneCommandPerVisibleCell ==
    (main_pc \in {"returned", "raised"} /\ \A c \in CellsOf(img) : ValidColour(img[c[2] + 1][c[1] + 1]))
        => /\ main_pc = "returned"
           /\ Len(api_cmds) = Cardinality(CellsOf(img))
                                 - Cardinality(CellsOf(img) \ VisibleCells(img))
           /\ \A c \in VisibleCells(img) :
                  Cardinality({i \in 1..Len(api_cmds) : api_cmds[i] = LineOf(c)}) = 1
           /\ VisibleCells(img) = {} => api_cmds = <<>> /\ Join(api_cmds) = <<>>

\* C13: get_cmds returned for an image with a transparent and a visible cell, shifted by
\* a negative dx
C13_Witness ==
    /\ main_pc = "returned"
    /\ \A c \in CellsOf(img) : ValidColour(img[c[2] + 1][c[1] + 1])
    /\ VisibleCells(img) # {}
    /\ VisibleCells(img) # CellsOf(img)
    /\ dx < 0
    /\ Len(api_cmds) = 1

\* C14: get_cmds raises exactly when some cell that is not transparent is not 6 or 8
\* hexadecimal digits, and then returns no list
C14_RaisesExactlyOnInvalidColour ==
    main_pc \in {"returned", "raised"}
        => /\ main_pc = "raised" <=>
                  \E c \in VisibleCells(img) : ~ValidColour(img[c[2] + 1][c[1] + 1])
           /\ main_pc = "raised" => api_cmds = <<>>

\* where the y field of a command starts: after the first space behind the x field
YStart(cmd) == 1 + CHOOSE j \in 5..Len(cmd) : cmd[j] = 32 /\ \A k \in 4..(j - 1) : cmd[k] # 32

\* C16: no command get_cmds returns has a negative x or y field (a minus sign, 45)
C16_CoordinatesNonNegative ==
    main_pc = "returned" =>
        \A i \in 1..Len(api_cmds) : /\ api_cmds[i][4] # 45
                                     /\ api_cmds[i][YStart(api_cmds[i])] # 45

\* C15: a connection whose command sequence is not empty transmits, from each refill of
\* its buffer to the next, as many bytes as its blob has: it goes round the whole blob
C15_EveryCycleSendsTheBlob ==
    (lastCyc.done /\ lastCyc.stable /\ lastCyc.cmds # <<>>)
        => /\ lastCyc.bytes # <<>>
           /\ Len(lastCyc.bytes) = Len(Join(lastCyc.cmds))

\* C18: the command sequence api_loop hands to set_cmd_list was compiled from the image
\* and the offset of one response: never the new image with the offset of an older one
C18_PublishedFromOneResponse ==
    api_pc = "set_cmd"
        => api_cmds \in Perms(get_cmds(api_resp.dx, api_resp.dy, load_img(api_resp.url)).cmds)

\* C19: when send adds to px_cnt, px_per_str is the length of the command list whose
\* blob cmd_str holds, for the connection send serves and for every other one, also
\* while set_cmd_list runs: send never meets a switched blob with a stale pixel count
C19_PixelCountMatchesBlob ==
    snd_pc = "store_px"
        => \A k \in DOMAIN cmd_str : px_per_str = Len(pubCmds[ConnOf(k)])

\* C17: once the main thread is interrupted, the send loop has stopped and eventually
\* no connection of the pool is open any more
C17_CancelClosesPool ==
    cancelled ~> (snd_pc = "dead" /\ \A s \in SockIds : socks[s].st # "open")

====
